---------------------------- MODULE Spec2Model ----------------------------
(***************************************************************************)
(* Model of the K5 Qt viewer protocol engine (tools/qtviewer/k5qtviewer.py, *)
(* class K5Receiver): the remote-keypad session/button state machine, the  *)
(* command packet codec and the display frame decoder.                     *)
(*                                                                         *)
(* The specifications of the module share its variables:                   *)
(*   Spec        the session/button state machine, driven by timer ticks,  *)
(*               key taps and decoded command messages;                    *)
(*   SpecCodec   _send_cmd followed by _fetch_cmd_packet on its bytes;     *)
(*   SpecScreen  poll feeding a byte stream to the two parsers;            *)
(*   SpecObfus   _obfus applied twice;                                     *)
(*   SpecWriteFail, SpecNoAck, SpecOrder, SpecSeq, SpecLive                *)
(*               the state machine with a failing transport, a radio that  *)
(*               never acks, several taps, a sequence counter about to     *)
(*               wrap, and fair ticks without a bound.                     *)
(***************************************************************************)
EXTENDS Integers, Sequences, FiniteSets, TLC

VARIABLES
    \* ---- environment: the wall clock read by _service_button_tx
    now,                        \* last value of int(time.time() * 1000)
    ticks,                      \* runs of the button timer so far (bounds the run)
    \* ---- K5Receiver fields (k5qtviewer.py:141-154)
    _session_ts,
    _session_pending,
    _session_deadline_ms,
    _last_session_attempt_ms,
    _button_queue,
    _next_seq,
    _inflight_seq,
    _inflight_event,
    _inflight_deadline_ms,
    _buffer,
    _cmd_buffer,
    _frame,
    \* ---- observation of the run (history, not program state)
    tx,                         \* messages written by the last handler
    last_op,                    \* the last handler that ran, with its input
    next_id,                    \* identity given to the next queued event
    tx_count,                   \* per event in the queue or in flight: its transmissions
    dropped,                    \* events dropped by _requeue_event
    acked,                      \* events whose ack was final: accepted, or not retried
    session_t0,                 \* unmasked clock value of the last _start_session
    stale_wait,                 \* a stale ack cleared the session, no SessionInit since
    transit,                    \* ButtonEvents sent whose in-flight record is not cleared
    script,                     \* progress along the single-tap scenario
    \* ---- codec run
    cmd_in,                     \* the (type, payload) given to _send_cmd; the bytes given to _obfus
    cmd_out,                    \* what _fetch_cmd_packet returned (under poll: every message
                                \* it has returned so far); the bytes _obfus has worked on
    codec_pc,
    \* ---- display run
    stream,                     \* bytes the radio has still to deliver
    scenario,                   \* what the stream was built from
    published,                  \* frames consumed so far, by outcome, in order
    last_frame,                 \* the last frame handed to frame_ready
    prev_frame,                 \* _frame before the last diff frame was applied
    diff_payload,               \* payload of the last diff frame applied
    polls                       \* runs of poll that read bytes (bounds the run)

smVars == <<now, ticks, _session_ts, _session_pending, _session_deadline_ms,
            _last_session_attempt_ms, _button_queue, _next_seq, _inflight_seq,
            _inflight_event, _inflight_deadline_ms, tx, last_op, next_id,
            tx_count, dropped, acked, session_t0, stale_wait, transit, script>>
codecVars == <<cmd_in, cmd_out, codec_pc, _cmd_buffer>>
screenVars == <<stream, scenario, published, last_frame, prev_frame, diff_payload,
               polls, _buffer, _frame>>
vars == <<smVars, codecVars, screenVars>>

(***************************************************************************)
(* Python's None and optional values: None is <<>>, a value x is <<x>>.    *)
(***************************************************************************)
None == <<>>
Some(x) == <<x>>
Val(o) == o[1]

(***************************************************************************)
(* Program constants.                                                      *)
(***************************************************************************)
FRAME_SIZE == 1024
TYPE_SCREENSHOT == 1
TYPE_DIFF == 2
MSG_SESSION_INIT == 1300
MSG_SESSION_INFO == 1301
MSG_BUTTON_EVENT == 1552
MSG_BUTTON_ACK == 1553
ACTION_PRESS == 0
ACTION_RELEASE == 1
SESSION_TIMEOUT_MS == 500
SESSION_RETRY_INTERVAL_MS == 300
BUTTON_ACK_TIMEOUT_MS == 700
BUTTON_RETRY_LIMIT == 4
SESSION_FRESH_MS == 5000

KEY_CODES == [k \in {"0", "1", "2", "3", "4", "5", "6", "7", "8", "9", "MENU", "UP",
                     "DOWN", "EXIT", "STAR", "F", "SIDE2", "SIDE1"} |->
              CASE k = "0" -> 0 [] k = "1" -> 1 [] k = "2" -> 2 [] k = "3" -> 3
                [] k = "4" -> 4 [] k = "5" -> 5 [] k = "6" -> 6 [] k = "7" -> 7
                [] k = "8" -> 8 [] k = "9" -> 9 [] k = "MENU" -> 10 [] k = "UP" -> 11
                [] k = "DOWN" -> 12 [] k = "EXIT" -> 13 [] k = "STAR" -> 14
                [] k = "F" -> 15 [] k = "SIDE2" -> 17 [] k = "SIDE1" -> 18]

(***************************************************************************)
(* Bounds of the model.                                                    *)
(***************************************************************************)
MaxTicks == 6
MaxTaps == 1

(***************************************************************************)
(* Clock values.  Python integers are unbounded and the wall clock in ms   *)
(* exceeds 2^32, so a clock value n is kept as two limbs, n = hi*2^30 + lo *)
(* with 0 <= lo < 2^30.  All operations below are exact on integers.       *)
(***************************************************************************)
Limb == 2^30
Ms(h, l) == [hi |-> h, lo |-> l]
\* t + k, for 0 <= k < 2^30
Plus(t, k) == IF t.lo + k >= Limb THEN Ms(t.hi + 1, t.lo + k - Limb) ELSE Ms(t.hi, t.lo + k)
\* a >= b
GreaterEq(a, b) == a.hi > b.hi \/ (a.hi = b.hi /\ a.lo >= b.lo)
\* (a - b) < k, for 0 <= k < 2^30
DiffLess(a, b, k) ==
    CASE a.hi - b.hi >= 2 -> FALSE
      [] a.hi - b.hi = 1 -> Limb + a.lo - b.lo < k
      [] a.hi - b.hi = 0 -> a.lo - b.lo < k
      [] OTHER -> TRUE
\* n & 0xFFFFFFFF  (2^32 = 4 * 2^30)
And32(t) == Ms(t.hi % 4, t.lo)

\* The clock values a run may start from: shortly after the epoch, 200 ms
\* before the clock reaches 2^32 ms, and a present-day wall clock
\* (1670 * 2^30 + 400000000 ms = 1 793 548 831 680 ms, November 2026).
StartClocks == {Ms(0, 1000), Ms(3, Limb - 200), Ms(1670, 400000000)}
\* Time that may pass between two runs of the 25 ms button timer.
Deltas == {100, 700, 5000}

(***************************************************************************)
(* The receiver object as a record, so that a handler is a function from   *)
(* the object before to the object after.                                  *)
(***************************************************************************)
Self ==
    [session_ts |-> _session_ts, session_pending |-> _session_pending,
     session_deadline_ms |-> _session_deadline_ms,
     last_session_attempt_ms |-> _last_session_attempt_ms,
     button_queue |-> _button_queue, next_seq |-> _next_seq,
     inflight_seq |-> _inflight_seq, inflight_event |-> _inflight_event,
     inflight_deadline_ms |-> _inflight_deadline_ms,
     tx |-> <<>>, next_id |-> next_id, tx_count |-> tx_count, dropped |-> dropped,
     acked |-> acked,
     session_t0 |-> session_t0, stale_wait |-> stale_wait, transit |-> transit]

Commit(s) ==
    /\ _session_ts' = s.session_ts
    /\ _session_pending' = s.session_pending
    /\ _session_deadline_ms' = s.session_deadline_ms
    /\ _last_session_attempt_ms' = s.last_session_attempt_ms
    /\ _button_queue' = s.button_queue
    /\ _next_seq' = s.next_seq
    /\ _inflight_seq' = s.inflight_seq
    /\ _inflight_event' = s.inflight_event
    /\ _inflight_deadline_ms' = s.inflight_deadline_ms
    /\ tx' = s.tx
    /\ next_id' = s.next_id
    /\ tx_count' = s.tx_count
    /\ dropped' = s.dropped
    /\ acked' = s.acked
    /\ session_t0' = s.session_t0
    /\ stale_wait' = s.stale_wait
    /\ transit' = s.transit


(***************************************************************************)
(* Byte helpers.                                                           *)
(***************************************************************************)
\* _hw_le(n): two bytes, little endian, of n & 0xFFFF
_hw_le(n) == <<n % 256, (n \div 256) % 256>>
\* _word_le(n): four bytes, little endian, of n & 0xFFFFFFFF, n a clock value
_word_le(t) ==
    <<t.lo % 256, (t.lo \div 256) % 256, (t.lo \div 65536) % 256,
      ((t.lo \div 16777216) + (t.hi % 4) * 64) % 256>>

(***************************************************************************)
(* The session/button state machine.                                       *)
(***************************************************************************)
\* A queued button event: the tuple (key_code, action, key_name, retries) of
\* the code, with the identity id the observation variables refer to.
Event(code, action, name, retries, id) ==
    [key_code |-> code, action |-> action, key_name |-> name, retries |-> retries,
     id |-> id]

\* str.upper() on the key names a caller may pass
Upper(name) ==
    CASE name = "menu" -> "MENU"
      [] name = "up" -> "UP"
      [] name = "q" -> "Q"
      [] OTHER -> name

\* The serial write of _send_cmd as the state machine sees it: the message
\* (type, payload bytes) goes out.  Its framing is _send_cmd below.
Transmit(s, msg_type, payload) ==
    [s EXCEPT !.tx = Append(@, [msg_type |-> msg_type, payload |-> payload])]

\* The retry limit forgotten: the event is requeued however often it failed.
_requeue_event_unbounded(s, event) ==
    [s EXCEPT !.button_queue = <<[event EXCEPT !.retries = @ + 1]>> \o @]

\* The event requeued at the tail of the queue instead of its front.
_requeue_event_at_tail(s, event) ==
    LET retries == event.retries + 1 IN
    IF retries > BUTTON_RETRY_LIMIT
    THEN [s EXCEPT !.dropped = @ \cup {event.id}, !.tx_count = [@ EXCEPT ![event.id] = 0]]
    ELSE [s EXCEPT !.button_queue = Append(@, [event EXCEPT !.retries = retries])]

_requeue_event(s, event) ==
    LET retries == event.retries + 1 IN
    IF retries > BUTTON_RETRY_LIMIT
    THEN [s EXCEPT !.dropped = @ \cup {event.id}, !.tx_count = [@ EXCEPT ![event.id] = 0]]
    ELSE [s EXCEPT !.button_queue = <<[event EXCEPT !.retries = retries]>> \o @]

_is_session_fresh(s, now_ms) ==
    IF s.session_ts = None
    THEN FALSE
    ELSE DiffLess(now_ms, Val(s.session_ts), SESSION_FRESH_MS)

_start_session(s, now_ms) ==
    LET s1 == [s EXCEPT !.session_pending = TRUE,
                        !.last_session_attempt_ms = now_ms,
                        !.session_deadline_ms = Plus(now_ms, SESSION_TIMEOUT_MS),
                        !.session_ts = Some(And32(now_ms)),
                        !.session_t0 = Some(now_ms),
                        !.stale_wait = FALSE]
    IN Transmit(s1, MSG_SESSION_INIT, _word_le(Val(s1.session_ts)))

\* k5qtviewer.py:341-344: a pending session request whose deadline has passed
SessionTimeout(s, now_ms) ==
    IF s.session_pending /\ GreaterEq(now_ms, s.session_deadline_ms)
    THEN [s EXCEPT !.session_pending = FALSE, !.session_ts = None, !.session_t0 = None]
    ELSE s

\* The in-flight record cleared without the event being requeued.
AckTimeout_forgetting_event(s, now_ms) ==
    IF s.inflight_seq # None /\ GreaterEq(now_ms, s.inflight_deadline_ms)
    THEN [s EXCEPT !.inflight_seq = None, !.inflight_event = None, !.transit = 0]
    ELSE s

\* k5qtviewer.py:346-351: an in-flight event whose ack deadline has passed
AckTimeout(s, now_ms) ==
    IF s.inflight_seq # None /\ GreaterEq(now_ms, s.inflight_deadline_ms)
    THEN LET r == IF s.inflight_event # None
                  THEN _requeue_event(s, Val(s.inflight_event))
                  ELSE s
         IN [r EXCEPT !.inflight_seq = None, !.inflight_event = None, !.transit = 0]
    ELSE s

\* The in-flight test forgotten: only the empty queue holds a send back.
TxBlocked_ignoring_inflight(s) == s.button_queue = <<>>

\* k5qtviewer.py:353-354: nothing to send, or an event is still in flight
TxBlocked(s) == s.inflight_seq # None \/ s.button_queue = <<>>

\* The sequence counter not advanced: every ButtonEvent carries the same number.
SendButton_not_counting(s, now_ms) ==
    LET ev == Head(s.button_queue)
        seq == s.next_seq % 65536
        ts == IF s.session_ts = None THEN Ms(0, 0) ELSE Val(s.session_ts)
        payload == _word_le(ts) \o _hw_le(seq) \o <<ev.key_code, ev.action>> \o _hw_le(0)
        s1 == [s EXCEPT !.button_queue = Tail(@)]
        s2 == Transmit(s1, MSG_BUTTON_EVENT, payload)
    IN [s2 EXCEPT !.inflight_seq = Some(seq),
                  !.inflight_event = Some(ev),
                  !.inflight_deadline_ms = Plus(now_ms, BUTTON_ACK_TIMEOUT_MS),
                  !.tx_count = [@ EXCEPT ![ev.id] = @ + 1],
                  !.transit = @ + 1]

\* The head of the queue sent and left in the queue.
SendButton_keeping_head(s, now_ms) ==
    LET ev == Head(s.button_queue)
        seq == s.next_seq % 65536
        ts == IF s.session_ts = None THEN Ms(0, 0) ELSE Val(s.session_ts)
        payload == _word_le(ts) \o _hw_le(seq) \o <<ev.key_code, ev.action>> \o _hw_le(0)
        s1 == [s EXCEPT !.next_seq = (s.next_seq + 1) % 65536]
        s2 == Transmit(s1, MSG_BUTTON_EVENT, payload)
    IN [s2 EXCEPT !.inflight_seq = Some(seq),
                  !.inflight_event = Some(ev),
                  !.inflight_deadline_ms = Plus(now_ms, BUTTON_ACK_TIMEOUT_MS),
                  !.tx_count = [@ EXCEPT ![ev.id] = @ + 1],
                  !.transit = @ + 1]

\* k5qtviewer.py:365-384: pop the head of the queue and send it
SendButton(s, now_ms) ==
    LET ev == Head(s.button_queue)
        seq == s.next_seq % 65536
        ts == IF s.session_ts = None THEN Ms(0, 0) ELSE Val(s.session_ts)
        payload == _word_le(ts) \o _hw_le(seq) \o <<ev.key_code, ev.action>> \o _hw_le(0)
        s1 == [s EXCEPT !.button_queue = Tail(@),
                        !.next_seq = (s.next_seq + 1) % 65536]
        s2 == Transmit(s1, MSG_BUTTON_EVENT, payload)
    IN [s2 EXCEPT !.inflight_seq = Some(seq),
                  !.inflight_event = Some(ev),
                  !.inflight_deadline_ms = Plus(now_ms, BUTTON_ACK_TIMEOUT_MS),
                  !.tx_count = [@ EXCEPT ![ev.id] = @ + 1],
                  !.transit = @ + 1]

_service_button_tx(s, now_ms) ==
    LET s1 == SessionTimeout(s, now_ms)
        s2 == AckTimeout(s1, now_ms)
    IN IF TxBlocked(s2) THEN s2
       ELSE IF s2.session_pending THEN s2
       ELSE IF ~_is_session_fresh(s2, now_ms)
            THEN IF DiffLess(now_ms, s2.last_session_attempt_ms, SESSION_RETRY_INTERVAL_MS)
                 THEN s2
                 ELSE _start_session(s2, now_ms)
       ELSE SendButton(s2, now_ms)

\* The key name not looked up: an unknown key is queued with key code 0.
queue_button_tap_unchecked(s, key_name) ==
    LET name == Upper(key_name)
        code == IF name \in DOMAIN KEY_CODES THEN KEY_CODES[name] ELSE 0
    IN [s EXCEPT !.button_queue =
                     @ \o <<Event(code, ACTION_PRESS, name, 0, s.next_id),
                            Event(code, ACTION_RELEASE, name, 0, s.next_id + 1)>>,
                 !.next_id = @ + 2]

\* k5qtviewer.py:184-193
queue_button_tap(s, key_name) ==
    LET name == Upper(key_name) IN
    IF name \notin DOMAIN KEY_CODES
    THEN s
    ELSE [s EXCEPT !.button_queue =
                       @ \o <<Event(KEY_CODES[name], ACTION_PRESS, name, 0, s.next_id),
                              Event(KEY_CODES[name], ACTION_RELEASE, name, 0, s.next_id + 1)>>,
                   !.next_id = @ + 2]

\* The sequence number of the ack not compared with the one in flight.
AckMatches_any_seq(s, msg_type, payload) ==
    /\ msg_type = MSG_BUTTON_ACK
    /\ Len(payload) >= 4
    /\ s.inflight_seq # None

\* k5qtviewer.py:257-268: a ButtonAck that answers the in-flight event
AckMatches(s, msg_type, payload) ==
    /\ msg_type = MSG_BUTTON_ACK
    /\ Len(payload) >= 4
    /\ s.inflight_seq # None
    /\ payload[1] + payload[2] * 256 = Val(s.inflight_seq)

\* The session kept on a stale ack.
StaleClear_keeping_session(s) == [s EXCEPT !.stale_wait = TRUE]

\* k5qtviewer.py:280-282: a stale ack invalidates the session
StaleClear(s) ==
    [s EXCEPT !.session_ts = None, !.session_pending = FALSE,
              !.session_t0 = None, !.stale_wait = TRUE]

\* Observation only: the event has left the queue and the in-flight record for
\* good, on an ack that is not retried.
Resolved(s, event) ==
    IF event = None THEN s
    ELSE [s EXCEPT !.tx_count = [@ EXCEPT ![Val(event).id] = 0],
                   !.acked = @ \cup {Val(event).id}]

\* Every status but accepted taken for busy: the event is requeued.
OnButtonAck_requeueing_invalid(s, status) ==
    LET event == s.inflight_event
        s1 == [s EXCEPT !.inflight_seq = None, !.inflight_event = None, !.transit = 0]
    IN IF status = 0 THEN Resolved(s1, event)
       ELSE LET s2 == IF event # None THEN _requeue_event(s1, Val(event)) ELSE s1
            IN IF status = 3 THEN StaleClear(s2) ELSE s2

\* k5qtviewer.py:270-285: the matching ack, by status
OnButtonAck(s, status) ==
    LET event == s.inflight_event
        s1 == [s EXCEPT !.inflight_seq = None, !.inflight_event = None, !.transit = 0]
    IN IF status = 0 THEN Resolved(s1, event)
       ELSE IF status \in {1, 3}
            THEN LET s2 == IF event # None THEN _requeue_event(s1, Val(event)) ELSE s1
                 IN IF status = 3 THEN StaleClear(s2) ELSE s2
       ELSE Resolved(s1, event)

\* k5qtviewer.py:251-285: one decoded message handed to the state machine
Dispatch(s, msg_type, payload) ==
    IF msg_type = MSG_SESSION_INFO
    THEN [s EXCEPT !.session_pending = FALSE]
    ELSE IF AckMatches(s, msg_type, payload)
         THEN OnButtonAck(s, payload[3])
         ELSE s


(***************************************************************************)
(* Specification Spec: the state machine under ticks, taps and messages.   *)
(***************************************************************************)
\* Key names a caller passes to queue_button_tap ("q" is no key).
TapInputs == {"1", "q"}
AckStatuses == {0, 1, 2, 3, 7}

\* Messages the radio may deliver at any time: a SessionInfo, a ButtonAck for
\* the last or the last but one sequence number sent, with any status, a
\* ButtonAck cut short, and a message of another type.
Inbound ==
    {[msg_type |-> MSG_SESSION_INFO, payload |-> <<0, 0, 0, 0>>],
     [msg_type |-> MSG_BUTTON_ACK, payload |-> _hw_le((_next_seq + 65535) % 65536) \o <<0>>],
     [msg_type |-> MSG_SESSION_INIT, payload |-> <<0, 0, 0, 0>>]}
    \cup {[msg_type |-> MSG_BUTTON_ACK, payload |-> _hw_le((_next_seq + 65536 - back) % 65536) \o <<st, 0>>] :
            back \in {1, 2}, st \in AckStatuses}

\* What last_op records: the handler ("init", "tick", "tap", "rejected" for a
\* tap with an unknown key, "info", "ack" for a ButtonAck that matched the
\* in-flight sequence number, "ignored" for a message that is not for the
\* state machine, "write_failed" for a tick whose write raised), the status of
\* a matching ack and the identity of the event the handler was about.
Op(kind, status, id) == [op |-> kind, status |-> status, id |-> id]

\* The variables of the other two specifications, which a specification
\* that does not model them leaves parked.
CodecIdle ==
    /\ cmd_in = None /\ cmd_out = None /\ codec_pc = "idle" /\ _cmd_buffer = <<>>
ScreenIdle ==
    /\ stream = <<>> /\ scenario = None /\ published = <<>> /\ last_frame = None
    /\ prev_frame = None /\ diff_payload = None /\ polls = 0
    /\ _buffer = <<>> /\ _frame = <<>>

\* K5Receiver.__init__ (k5qtviewer.py:141-154)
Init ==
    /\ now \in StartClocks
    /\ ticks = 0
    /\ _session_ts = None
    /\ _session_pending = FALSE
    /\ _session_deadline_ms = Ms(0, 0)
    /\ _last_session_attempt_ms = Ms(0, 0)
    /\ _button_queue = <<>>
    /\ _next_seq = 1
    /\ _inflight_seq = None
    /\ _inflight_event = None
    /\ _inflight_deadline_ms = Ms(0, 0)
    /\ tx = <<>>
    /\ last_op = Op("init", 0, 0)
    /\ next_id = 1
    /\ tx_count = [i \in 1..(2 * MaxTaps) |-> 0]
    /\ dropped = {}
    /\ acked = {}
    /\ session_t0 = None
    /\ stale_wait = FALSE
    /\ transit = 0
    /\ script = 0
    /\ CodecIdle
    /\ ScreenIdle

\* The single-tap scenario: tap "1", a prompt tick, SessionInfo, a prompt tick,
\* the ack (accepted) of the event just sent, a prompt tick, its ack (accepted).
\* script counts the steps taken along it and is -1 once the run has left it.
ScriptAfterTap(key_name) == IF script = 0 /\ key_name = "1" THEN 1 ELSE -1
ScriptAfterTick(d) == IF script \in {1, 3, 5} /\ d = 100 THEN script + 1 ELSE -1
ScriptAfterMsg(m) ==
    IF script = 2 /\ m.msg_type = MSG_SESSION_INFO THEN 3
    ELSE IF /\ script \in {4, 6}
            /\ m.msg_type = MSG_BUTTON_ACK
            /\ m.payload = _hw_le((_next_seq + 65535) % 65536) \o <<0, 0>>
         THEN script + 1
         ELSE -1

\* The 25 ms button timer fires: _service_button_tx reads the clock and runs.
Tick ==
    \E d \in Deltas :
        /\ ticks < MaxTicks
        /\ now' = Plus(now, d)
        /\ ticks' = ticks + 1
        /\ Commit(_service_button_tx(Self, Plus(now, d)))
        /\ last_op' = Op("tick", 0, 0)
        /\ script' = ScriptAfterTick(d)
        /\ UNCHANGED <<codecVars, screenVars>>

\* The keypad widget calls queue_button_tap.
Tap ==
    \E key_name \in TapInputs :
        /\ Upper(key_name) \in DOMAIN KEY_CODES => next_id < 2 * MaxTaps
        /\ Commit(queue_button_tap(Self, key_name))
        /\ last_op' = Op(IF Upper(key_name) \in DOMAIN KEY_CODES THEN "tap" ELSE "rejected",
                         0, 0)
        /\ script' = ScriptAfterTap(key_name)
        /\ UNCHANGED <<now, ticks, codecVars, screenVars>>

\* poll hands one decoded command message to the state machine.
Recv ==
    \E m \in Inbound :
        /\ Commit(Dispatch(Self, m.msg_type, m.payload))
        /\ last_op' = IF m.msg_type = MSG_SESSION_INFO THEN Op("info", 0, 0)
                      ELSE IF AckMatches(Self, m.msg_type, m.payload)
                           THEN Op("ack", m.payload[3],
                                   IF _inflight_event = None THEN 0
                                   ELSE Val(_inflight_event).id)
                           ELSE Op("ignored", 0, 0)
        /\ script' = ScriptAfterMsg(m)
        /\ UNCHANGED <<now, ticks, codecVars, screenVars>>

Next == Tick \/ Tap \/ Recv

Spec == Init /\ [][Next]_vars


(***************************************************************************)
(* Properties of the state machine, checked under Spec.                    *)
(***************************************************************************)
ButtonsIn(msgs) == {i \in 1..Len(msgs) : msgs[i].msg_type = MSG_BUTTON_EVENT}
InitsIn(msgs) == {i \in 1..Len(msgs) : msgs[i].msg_type = MSG_SESSION_INIT}
\* The last handler wrote exactly one message: a ButtonEvent for this key and action.
SentOnlyButton(key_name, action) ==
    /\ Len(tx) = 1
    /\ tx[1].msg_type = MSG_BUTTON_EVENT
    /\ tx[1].payload[7] = KEY_CODES[key_name]
    /\ tx[1].payload[8] = action
\* The clock is a present-day wall clock (time.time() in 2026).
RealClock == GreaterEq(now, Ms(1670, 0))
\* The clock has not reached 2^32 ms.
EarlyClock == now.hi < 4

\* C1: from no session, nothing in flight and one queued tap for key "1", with
\* ticks reading the real wall clock: the first tick sends SessionInit and
\* nothing else; after SessionInfo the next tick sends ButtonEvent(press);
\* after its accepted ack the next tick sends ButtonEvent(release); after that
\* one is accepted the queue is empty, nothing is in flight, nothing was retried.
C1_SingleTap ==
    RealClock =>
        /\ script = 2 => Len(tx) = 1 /\ tx[1].msg_type = MSG_SESSION_INIT
        /\ script = 4 => SentOnlyButton("1", ACTION_PRESS)
        /\ script = 6 => SentOnlyButton("1", ACTION_RELEASE)
        /\ script = 7 => /\ _button_queue = <<>>
                         /\ _inflight_seq = None
                         /\ _inflight_event = None
                         /\ _next_seq = 3
                         /\ dropped = {}

\* The same scenario on a clock below 2^32 ms, where the code follows it.
SingleTapOnEarlyClock ==
    (EarlyClock /\ now.hi = 0) =>
        /\ script = 2 => Len(tx) = 1 /\ tx[1].msg_type = MSG_SESSION_INIT
        /\ script = 4 => SentOnlyButton("1", ACTION_PRESS)
        /\ script = 6 => SentOnlyButton("1", ACTION_RELEASE)
        /\ script = 7 => /\ _button_queue = <<>>
                         /\ _inflight_seq = None
                         /\ _inflight_event = None
                         /\ _next_seq = 3
                         /\ dropped = {}
SingleTapDone == script = 7 /\ now.hi = 0

\* C2: at most one button event is in transit: between the transmission of a
\* ButtonEvent and the clearing of its in-flight record (matching ack or ack
\* timeout) no other ButtonEvent is transmitted.
C2_OneInTransit ==
    /\ transit <= 1
    /\ Cardinality(ButtonsIn(tx)) <= 1
    /\ transit = 1 <=> _inflight_seq # None

\* A tick ran with an event in flight and another one queued, and sent nothing.
C2_Witness ==
    /\ last_op.op = "tick"
    /\ _inflight_seq # None
    /\ _button_queue # <<>>
    /\ tx = <<>>

\* C3: retries are bounded: every requeue increments the event's retry
\* counter, an event whose counter would exceed 4 is dropped instead of
\* requeued, no event is transmitted more than 5 times, and a dropped event is
\* never in the queue or in flight again.
C3_RetriesBounded ==
    /\ \A i \in 1..Len(_button_queue) :
          /\ _button_queue[i].retries <= BUTTON_RETRY_LIMIT
          /\ tx_count[_button_queue[i].id] = _button_queue[i].retries
          /\ _button_queue[i].id \notin dropped
    /\ _inflight_event # None =>
          /\ Val(_inflight_event).retries <= BUTTON_RETRY_LIMIT
          /\ tx_count[Val(_inflight_event).id] = Val(_inflight_event).retries + 1
          /\ Val(_inflight_event).id \notin dropped
    /\ \A id \in DOMAIN tx_count : tx_count[id] <= 5

\* An event was sent five times, failed five times and was dropped; the event
\* queued behind it is still there.
C3_Witness ==
    /\ dropped # {}
    /\ _button_queue # <<>>
    /\ \A i \in 1..Len(_button_queue) : _button_queue[i].id \notin dropped

\* C4: a session created at clock time t0 (stored masked to 32 bits) is
\* judged fresh at tick time t iff it is set and t - t0 < 5000 ms, for every
\* clock value; and a tick that finds it not fresh sends no ButtonEvent.
C4_FreshIffYoung ==
    /\ _is_session_fresh(Self, now) <=>
          (session_t0 # None /\ DiffLess(now, Val(session_t0), SESSION_FRESH_MS))
    /\ (last_op.op = "tick" /\ ButtonsIn(tx) # {}) =>
          (session_t0 # None /\ DiffLess(now, Val(session_t0), SESSION_FRESH_MS))

\* The same for a session created below 2^32 ms, where the mask changes nothing.
FreshIffYoungOnEarlyClock ==
    (session_t0 = None \/ Val(session_t0).hi < 4) => C4_FreshIffYoung
SessionWentStale ==
    /\ EarlyClock
    /\ _session_ts # None
    /\ ~_is_session_fresh(Self, now)

\* C5: a stale ack (status 3) that matches the in-flight sequence number
\* clears the session timestamp and the pending flag besides requeueing the
\* event; from then on no ButtonEvent is sent until a SessionInit has been sent.
C5_StaleForcesInit ==
    /\ (last_op.op = "ack" /\ last_op.status = 3) =>
          /\ _session_ts = None
          /\ ~_session_pending
          /\ _inflight_seq = None
          /\ \/ last_op.id \in dropped
             \/ _button_queue # <<>> /\ Head(_button_queue).id = last_op.id
    /\ stale_wait => ButtonsIn(tx) = {}

\* A tick ran after a stale ack, with the retried event queued, and sent
\* neither the event nor (the retry interval not being over) a SessionInit.
C5_Witness ==
    /\ stale_wait
    /\ last_op.op = "tick"
    /\ _button_queue # <<>>
    /\ Head(_button_queue).retries > 0
    /\ tx = <<>>

\* A matching busy ack (status 1) is being processed.
BusyAckStep ==
    /\ last_op'.op = "ack"
    /\ last_op'.status = 1
    /\ _inflight_event # None

SessionUnchanged ==
    UNCHANGED <<_session_ts, _session_pending, _session_deadline_ms,
                _last_session_attempt_ms>>

\* C6 as claimed: a matching busy ack clears the in-flight record, inserts
\* the in-flight event exactly once at the front of the queue, and leaves the
\* session timestamp and pending flag unchanged.
C6_BusyRequeuesAtFront ==
    [][BusyAckStep =>
          /\ _inflight_seq' = None
          /\ _inflight_event' = None
          /\ _button_queue' =
                <<[Val(_inflight_event) EXCEPT !.retries = @ + 1]>> \o _button_queue
          /\ SessionUnchanged]_vars

\* C6, amended: the same, unless the event's retry counter is already 4: then
\* the event is dropped and the queue is left as it was.
C6_BusyRequeuesOrDrops ==
    [][BusyAckStep =>
          /\ _inflight_seq' = None
          /\ _inflight_event' = None
          /\ IF Val(_inflight_event).retries < BUTTON_RETRY_LIMIT
             THEN _button_queue' =
                    <<[Val(_inflight_event) EXCEPT !.retries = @ + 1]>> \o _button_queue
             ELSE /\ _button_queue' = _button_queue
                  /\ dropped' = dropped \cup {Val(_inflight_event).id}
          /\ SessionUnchanged]_vars

\* A busy ack put the event it answered back in front of a queued one.
C6_Witness ==
    /\ last_op.op = "ack"
    /\ last_op.status = 1
    /\ Len(_button_queue) >= 2
    /\ Head(_button_queue).id = last_op.id
    /\ _inflight_seq = None


(***************************************************************************)
(* The command packet codec.                                               *)
(***************************************************************************)
CMD_HEADER == <<171, 205>>
CMD_FOOTER == <<220, 186>>
OBFUS_TBL == <<22, 108, 20, 230, 46, 145, 13, 64, 33, 53, 213, 64, 19, 3, 233, 128>>

\* a ^ b on naturals
XorBits[a \in Nat, b \in Nat] ==
    IF a = 0 THEN b
    ELSE IF b = 0 THEN a
    ELSE ((a + b) % 2) + 2 * XorBits[a \div 2, b \div 2]

Xor(a, b) == XorBits[a, b]

\* buf[a:b] of Python, 0 <= a, on a sequence (indices from 0, b exclusive)
Slice(buf, a, b) ==
    IF b > Len(buf) THEN SubSeq(buf, a + 1, Len(buf)) ELSE SubSeq(buf, a + 1, b)

\* buf.find(pat) for a two-byte pat: the index (from 0) of its first
\* occurrence, -1 when there is none
Find(buf, pat) ==
    IF \E i \in 1..(Len(buf) - 1) : buf[i] = pat[1] /\ buf[i + 1] = pat[2]
    THEN (CHOOSE i \in 1..(Len(buf) - 1) :
             /\ buf[i] = pat[1] /\ buf[i + 1] = pat[2]
             /\ \A j \in 1..(i - 1) : ~(buf[j] = pat[1] /\ buf[j + 1] = pat[2])) - 1
    ELSE -1

\* The key added instead of xored.
_obfus_adding(buf) == [i \in 1..Len(buf) |-> (buf[i] + OBFUS_TBL[((i - 1) % 16) + 1]) % 256]

\* k5qtviewer.py:437-441
_obfus(buf) == [i \in 1..Len(buf) |-> Xor(buf[i], OBFUS_TBL[((i - 1) % 16) + 1])]

\* one turn of the inner loop of _calc_crc
CrcShift[crc \in Nat] ==
    IF (crc \div 32768) % 2 = 1
    THEN Xor((crc * 2) % 65536, 4129)
    ELSE (crc * 2) % 65536

\* one turn of the outer loop of _calc_crc
CrcByte(crc, b) ==
    CrcShift[CrcShift[CrcShift[CrcShift[CrcShift[CrcShift[CrcShift[CrcShift[
        Xor(crc, (b % 256) * 256)]]]]]]]]

\* crc after the first i bytes of buf[off:off+size]
_calc_crc(buf, off, size) ==
    LET CrcFrom[i \in 0..size] ==
            IF i = 0 THEN 0 ELSE CrcByte(CrcFrom[i - 1], buf[off + i])
    IN CrcFrom[size]

\* k5qtviewer.py:411-419: the message, padded to an even length
PaddedMsg(msg_type, payload) ==
    LET msg == _hw_le(msg_type) \o _hw_le(Len(payload)) \o payload
    IN IF Len(msg) % 2 = 1 THEN msg \o <<0>> ELSE msg

\* The bytes _send_cmd writes for (msg_type, payload).
_send_cmd(msg_type, payload) ==
    LET msg == PaddedMsg(msg_type, payload)
        msg_len == Len(msg)
        clear == <<171, 205>> \o _hw_le(msg_len) \o msg
        crc == _calc_crc(clear, 4, msg_len)
        body == _obfus(msg \o _hw_le(crc))
    IN <<171, 205>> \o _hw_le(msg_len) \o body \o <<220, 186>>

\* What _fetch_cmd_packet returns and what it leaves in _cmd_buffer.
Fetched(buf, msg) == [buf |-> buf, msg |-> msg]

\* k5qtviewer.py:326-327: type and payload of a de-obfuscated message
MsgOf(msg) ==
    [msg_type |-> msg[1] + msg[2] * 256,
     payload |-> IF Len(msg) >= 4 THEN Slice(msg, 4, Len(msg)) ELSE <<>>]

\* k5qtviewer.py:304-330: the buffer starts with the header
FetchAtHeader(buf) ==
    IF Len(buf) < 8 THEN Fetched(buf, None)
    ELSE LET msg_len == buf[3] + buf[4] * 256
             packet_end == 6 + msg_len
             total == packet_end + 2
         IN IF Len(buf) < total THEN Fetched(buf, None)
            ELSE IF buf[packet_end + 1] # CMD_FOOTER[1] \/ buf[packet_end + 2] # CMD_FOOTER[2]
                 THEN Fetched(Slice(buf, 2, Len(buf)), None)
                 ELSE LET body == _obfus(Slice(buf, 4, 4 + msg_len + 2))
                          msg == Slice(body, 0, Len(body) - 2)
                      IN IF Len(msg) < 2
                         THEN Fetched(Slice(buf, total, Len(buf)), None)
                         ELSE Fetched(Slice(buf, total, Len(buf)), Some(MsgOf(msg)))

_fetch_cmd_packet(buf) ==
    IF Len(buf) < 8 THEN Fetched(buf, None)
    ELSE LET begin == Find(buf, CMD_HEADER)
         IN IF begin < 0
            THEN IF buf[Len(buf)] = 171
                 THEN Fetched(<<buf[Len(buf)]>>, None)
                 ELSE Fetched(<<>>, None)
            ELSE FetchAtHeader(Slice(buf, begin, Len(buf)))

(***************************************************************************)
(* Specification SpecCodec: one message is encoded by _send_cmd, its bytes *)
(* are put in the empty command buffer, _fetch_cmd_packet is called once.  *)
(***************************************************************************)
MaxPayloadLen == 3
CodecTypes == {MSG_SESSION_INIT, MSG_SESSION_INFO, MSG_BUTTON_EVENT, MSG_BUTTON_ACK}
CodecBytes == {0, 171, 255}

RECURSIVE SeqsUpTo(_, _)
SeqsUpTo(S, n) ==
    IF n = 0 THEN {<<>>}
    ELSE LET shorter == SeqsUpTo(S, n - 1)
         IN shorter \cup {Append(q, x) : q \in {r \in shorter : Len(r) = n - 1}, x \in S}

StateMachineIdle ==
    /\ now = Ms(0, 0) /\ ticks = 0 /\ _session_ts = None /\ _session_pending = FALSE
    /\ _session_deadline_ms = Ms(0, 0) /\ _last_session_attempt_ms = Ms(0, 0)
    /\ _button_queue = <<>> /\ _next_seq = 1 /\ _inflight_seq = None
    /\ _inflight_event = None /\ _inflight_deadline_ms = Ms(0, 0)
    /\ tx = <<>> /\ last_op = Op("init", 0, 0) /\ next_id = 1 /\ tx_count = <<>>
    /\ dropped = {} /\ acked = {} /\ session_t0 = None /\ stale_wait = FALSE
    /\ transit = 0
    /\ script = -1

InitCodec ==
    /\ cmd_in \in {Some([msg_type |-> ty, payload |-> pl]) :
                      ty \in CodecTypes, pl \in SeqsUpTo(CodecBytes, MaxPayloadLen)}
    /\ cmd_out = None
    /\ codec_pc = "send"
    /\ _cmd_buffer = <<>>
    /\ StateMachineIdle
    /\ ScreenIdle

\* The peer encodes the message; poll appends its bytes to _cmd_buffer.
CodecSend ==
    /\ codec_pc = "send"
    /\ _cmd_buffer' = _cmd_buffer \o _send_cmd(Val(cmd_in).msg_type, Val(cmd_in).payload)
    /\ codec_pc' = "fetch"
    /\ UNCHANGED <<cmd_in, cmd_out, smVars, screenVars>>

\* _consume_cmd_buffer calls _fetch_cmd_packet.
CodecFetch ==
    /\ codec_pc = "fetch"
    /\ cmd_out' = _fetch_cmd_packet(_cmd_buffer).msg
    /\ _cmd_buffer' = _fetch_cmd_packet(_cmd_buffer).buf
    /\ codec_pc' = "done"
    /\ UNCHANGED <<cmd_in, smVars, screenVars>>

NextCodec == CodecSend \/ CodecFetch

SpecCodec == InitCodec /\ [][NextCodec]_vars

\* C7: command packet round trip: for every message type and payload, the
\* bytes _send_cmd produces, fed to an empty command buffer, make
\* _fetch_cmd_packet return the same (type, payload) and leave the buffer
\* empty, for even and for odd payload lengths alike.
C7_RoundTrip ==
    codec_pc = "done" => (cmd_out = cmd_in /\ _cmd_buffer = <<>>)

\* The round trip for payloads of even length, where _send_cmd adds no pad byte.
RoundTripEvenPayload ==
    (codec_pc = "done" /\ Len(Val(cmd_in).payload) % 2 = 0) =>
        (cmd_out = cmd_in /\ _cmd_buffer = <<>>)
\* For a payload of odd length the decoder returns the payload and the pad byte.
RoundTripOddPayload ==
    (codec_pc = "done" /\ Len(Val(cmd_in).payload) % 2 = 1) =>
        /\ cmd_out # None
        /\ Val(cmd_out).msg_type = Val(cmd_in).msg_type
        /\ Val(cmd_out).payload = Val(cmd_in).payload \o <<0>>
        /\ _cmd_buffer = <<>>


(***************************************************************************)
(* The display decoder: _consume_screen_buffer and _apply_diff.            *)
(***************************************************************************)
HEADER == <<170, 85>>

\* The display side of the receiver, and what it has emitted so far.
Screen ==
    [buf |-> _buffer, frame |-> _frame, published |-> published,
     last_frame |-> last_frame, prev_frame |-> prev_frame,
     diff_payload |-> diff_payload]

\* buf[a:b] = data of Python on a bytearray (indices from 0, clamped to the length)
SliceAssign(buf, a, b, data) ==
    LET lo == IF a > Len(buf) THEN Len(buf) ELSE a
        hi0 == IF b > Len(buf) THEN Len(buf) ELSE b
        hi == IF hi0 < lo THEN lo ELSE hi0
    IN SubSeq(buf, 1, lo) \o data \o SubSeq(buf, hi + 1, Len(buf))

\* A block written nine bytes apart instead of eight.
BlockStart_by_nine(block) == block * 9

\* k5qtviewer.py:471: the first byte of a block in the DisplayBuffer
BlockStart(block) == block * 8

\* The loop of _apply_diff without the test of the block index.
RECURSIVE ApplyFrom_unchecked(_, _, _)
ApplyFrom_unchecked(frame, payload, i) ==
    IF i + 9 > Len(payload) THEN frame
    ELSE ApplyFrom_unchecked(SliceAssign(frame, BlockStart(payload[i + 1]),
                                         BlockStart(payload[i + 1]) + 8,
                                         Slice(payload, i + 1, i + 9)),
                             payload, i + 9)

\* k5qtviewer.py:466-472: the loop of _apply_diff from payload index i on
RECURSIVE ApplyFrom(_, _, _)
ApplyFrom(frame, payload, i) ==
    IF i + 9 > Len(payload) THEN frame
    ELSE LET block == payload[i + 1]
         IN IF block >= 128 THEN frame
            ELSE ApplyFrom(SliceAssign(frame, BlockStart(block), BlockStart(block) + 8,
                                       Slice(payload, i + 1, i + 9)),
                           payload, i + 9)

_apply_diff(frame, payload) == ApplyFrom(frame, payload, 0)

\* k5qtviewer.py:234-241: one complete frame taken off the buffer
OnFrame(d, msg_type, size, payload) ==
    IF msg_type = TYPE_SCREENSHOT /\ size = FRAME_SIZE
    THEN [d EXCEPT !.frame = payload, !.last_frame = Some(payload),
                   !.published = Append(@, "full")]
    ELSE IF msg_type = TYPE_DIFF /\ size % 9 = 0
         THEN LET after == _apply_diff(d.frame, payload)
              IN [d EXCEPT !.prev_frame = Some(d.frame), !.frame = after,
                           !.last_frame = Some(after), !.diff_payload = Some(payload),
                           !.published = Append(@, "diff")]
         ELSE [d EXCEPT !.published = Append(@, "ignored")]

\* The whole buffer dropped when no header is found.
KeepTail_clearing(buf) == <<>>

\* k5qtviewer.py:218-219: without a header only the last byte is kept
KeepTail(buf) == IF Len(buf) > 1 THEN <<buf[Len(buf)]>> ELSE buf

\* A frame taken off the buffer before all its bytes are there.
Incomplete_never(buf, total) == FALSE

\* k5qtviewer.py:230: the frame is not complete yet
Incomplete(buf, total) == Len(buf) < total

\* k5qtviewer.py:211-243
RECURSIVE _consume_screen_buffer(_)
_consume_screen_buffer(d) ==
    IF Len(d.buf) < 5 THEN d
    ELSE LET hdr == Find(d.buf, HEADER)
         IN IF hdr < 0 THEN [d EXCEPT !.buf = KeepTail(d.buf)]
            ELSE LET buf == Slice(d.buf, hdr, Len(d.buf))
                 IN IF Len(buf) < 5 THEN [d EXCEPT !.buf = buf]
                    ELSE LET msg_type == buf[3]
                             size == buf[4] * 256 + buf[5]
                             total == 5 + size
                         IN IF Incomplete(buf, total) THEN [d EXCEPT !.buf = buf]
                            ELSE _consume_screen_buffer(
                                     OnFrame([d EXCEPT !.buf = Slice(buf, total, Len(buf))],
                                             msg_type, size, Slice(buf, 5, total)))

\* k5qtviewer.py:245-285: every packet the command buffer holds is fetched
\* and handed to the state machine, until _fetch_cmd_packet returns None.
\* msgs lists the messages handed over, in order.
RECURSIVE _consume_cmd_buffer(_, _)
_consume_cmd_buffer(s, buf) ==
    LET f == _fetch_cmd_packet(buf)
    IN IF f.msg = None THEN [s |-> s, buf |-> f.buf, msgs |-> <<>>]
       ELSE LET rest == _consume_cmd_buffer(
                            Dispatch(s, Val(f.msg).msg_type, Val(f.msg).payload), f.buf)
            IN [rest EXCEPT !.msgs = <<Val(f.msg)>> \o @]


(***************************************************************************)
(* Specification SpecScreen: the radio delivers a byte stream (garbage, a  *)
(* full frame, possibly a diff frame after it) and poll reads it in        *)
(* chunks, feeding both decoders.                                          *)
(***************************************************************************)
MaxPolls == 5
MaxGarbageTail == 2
MaxChunks == 2

\* in_waiting at a run of poll
ChunkSizes == {1, 2, 4, 1000, 2000}
FramePatterns == {"ramp", "magic"}
GarbagePrefixes == {<<>>, <<9, 9, 9, 9>>}
GarbageBytes == {9, 85, 170}
DiffBlocks == {3, 127, 128}

\* Payloads of a full frame: a ramp, and one made of the header bytes only.
PayloadOf(name) ==
    [i \in 1..FRAME_SIZE |->
        IF name = "ramp" THEN (i - 1) % 256 ELSE IF i % 2 = 1 THEN 170 ELSE 85]

\* The eight data bytes of the k-th chunk of a diff frame.
ChunkData(k) == [j \in 1..8 |-> 16 * k + j]

\* The payload of a diff frame whose chunks carry the given blocks.
DiffPayload(blocks) ==
    [i \in 1..(9 * Len(blocks)) |->
        LET k == ((i - 1) \div 9) + 1
            r == (i - 1) % 9
        IN IF r = 0 THEN blocks[k] ELSE ChunkData(k)[r]]

\* k5qtviewer.py:222-228 read backwards: header, type, big-endian size, payload
ScreenFrame(msg_type, payload) ==
    HEADER \o <<msg_type, Len(payload) \div 256, Len(payload) % 256>> \o payload

\* What may precede the full frame: filler and header bytes, and a command packet.
Garbages ==
    {pre \o tail : pre \in GarbagePrefixes, tail \in SeqsUpTo(GarbageBytes, MaxGarbageTail)}
        \cup {_send_cmd(MSG_SESSION_INFO, <<0, 0, 0, 0>>)}

Scenario(kind, garbage, payload, blocks) ==
    [kind |-> kind, garbage |-> garbage, payload |-> payload, blocks |-> blocks]

\* Frames the decoder takes off the buffer and ignores: an unknown type, a
\* full frame of the wrong size, a diff frame whose size is no multiple of 9.
UnknownFrames ==
    {ScreenFrame(3, <<7, 7>>), ScreenFrame(TYPE_SCREENSHOT, <<7, 7>>),
     ScreenFrame(TYPE_DIFF, <<3, 7, 7, 7>>)}

\* A command packet whose footer is not the footer.
BadFooter(packet) == SubSeq(packet, 1, Len(packet) - 2) \o <<0, 0>>

\* Two command packets the radio sends ahead of a frame.
GoodAck == _send_cmd(MSG_BUTTON_ACK, <<1, 0, 0, 0>>)
GoodInfo == _send_cmd(MSG_SESSION_INFO, <<0, 0, 0, 0>>)

\* Command packets in front of the full frame: two good ones, and a bad one
\* with a good one behind it.
CmdStreams == {GoodAck \o GoodInfo, BadFooter(GoodAck) \o GoodInfo}

Scenarios ==
    {Scenario("full", <<>>, p, <<>>) : p \in FramePatterns}
        \cup {Scenario("full", g, "ramp", <<>>) :
                 g \in Garbages \cup UnknownFrames \cup CmdStreams}
        \cup {Scenario("diff", <<>>, "ramp", b) : b \in SeqsUpTo(DiffBlocks, MaxChunks)}

StreamOf(sc) ==
    sc.garbage \o ScreenFrame(TYPE_SCREENSHOT, PayloadOf(sc.payload))
        \o (IF sc.kind = "diff" THEN ScreenFrame(TYPE_DIFF, DiffPayload(sc.blocks)) ELSE <<>>)

\* K5Receiver.__init__ (k5qtviewer.py:141-143), before the first byte arrives
InitScreen ==
    /\ scenario \in {Some(sc) : sc \in Scenarios}
    /\ stream = StreamOf(Val(scenario))
    /\ published = <<>>
    /\ last_frame = None
    /\ prev_frame = None
    /\ diff_payload = None
    /\ polls = 0
    /\ _buffer = <<>>
    /\ _frame = [i \in 1..FRAME_SIZE |-> 0]
    /\ CodecIdle
    /\ StateMachineIdle

\* k5qtviewer.py:195-209: the 10 ms poll timer fires with n bytes waiting; the
\* bytes read go to both buffers and both decoders run.
Poll ==
    \E n \in ChunkSizes :
        /\ polls < MaxPolls
        /\ stream # <<>>
        /\ LET waiting == IF n > Len(stream) THEN Len(stream) ELSE n
               data == SubSeq(stream, 1, waiting)
               d == _consume_screen_buffer([Screen EXCEPT !.buf = _buffer \o data])
               c == _consume_cmd_buffer(Self, _cmd_buffer \o data)
           IN /\ stream' = SubSeq(stream, waiting + 1, Len(stream))
              /\ _buffer' = d.buf
              /\ _frame' = d.frame
              /\ published' = d.published
              /\ last_frame' = d.last_frame
              /\ prev_frame' = d.prev_frame
              /\ diff_payload' = d.diff_payload
              /\ _cmd_buffer' = c.buf
              /\ cmd_out' = cmd_out \o c.msgs
              /\ Commit(c.s)
        /\ polls' = polls + 1
        /\ UNCHANGED <<now, ticks, last_op, script, cmd_in, codec_pc, scenario>>

NextScreen == Poll

SpecScreen == InitScreen /\ [][NextScreen]_vars


\* Every byte of the stream has been read by poll.
Delivered == scenario # None /\ stream = <<>>
FullsIn(p) == {i \in 1..Len(p) : p[i] = "full"}

\* C8: split tolerance of the display decoder: one valid full frame (any
\* payload), cut into chunks in any way and ingested from an empty receive
\* buffer, is published exactly once, with the original payload, and the
\* receive buffer is empty afterwards; nothing is published before its last
\* byte is in.
C8_SplitTolerance ==
    (scenario # None /\ Val(scenario).kind = "full" /\ Val(scenario).garbage = <<>>) =>
        IF stream = <<>>
        THEN /\ published = <<"full">>
             /\ last_frame = Some(PayloadOf(Val(scenario).payload))
             /\ _frame = PayloadOf(Val(scenario).payload)
             /\ _buffer = <<>>
        ELSE published = <<>>

\* A frame whose payload is made of header bytes, cut into five chunks.
C8_Witness ==
    /\ Delivered
    /\ Val(scenario) = Scenario("full", <<>>, "magic", <<>>)
    /\ polls = MaxPolls
    /\ published = <<"full">>

\* The chunks of a diff payload and the blocks they carry.
ChunksOf(payload) == 1..(Len(payload) \div 9)
BlockOf(payload, k) == payload[9 * (k - 1) + 1]
\* The chunks that write byte j (from 0) of the DisplayBuffer.
WritersOf(payload, j) == {k \in ChunksOf(payload) : BlockOf(payload, k) = j \div 8}
Max(S) == CHOOSE x \in S : \A y \in S : y <= x
\* The bytes (from 0) in which two buffers differ.
Changed(f, g) == {j \in 0..(FRAME_SIZE - 1) : f[j + 1] # g[j + 1]}

\* C9: after a diff frame whose chunks all carry blocks below 128 has been
\* applied, byte j of the DisplayBuffer is the byte j % 8 of the data of the
\* last chunk whose block is j \div 8, and is what it was before the diff
\* frame when no chunk carries that block.
C9_DiffReplacesBlocks ==
    (/\ diff_payload # None
     /\ published[Len(published)] = "diff"
     /\ \A k \in ChunksOf(Val(diff_payload)) : BlockOf(Val(diff_payload), k) < 128) =>
        /\ Len(_frame) = FRAME_SIZE
        /\ \A j \in 0..(FRAME_SIZE - 1) :
              _frame[j + 1] =
                  IF WritersOf(Val(diff_payload), j) = {}
                  THEN Val(prev_frame)[j + 1]
                  ELSE Val(diff_payload)[9 * (Max(WritersOf(Val(diff_payload), j)) - 1)
                                         + 2 + (j % 8)]

\* Blocks 3 and 127 have changed bytes [24,32) and [1016,1024) and no other.
C9_Witness ==
    /\ Delivered
    /\ Val(scenario).blocks = <<3, 127>>
    /\ published = <<"full", "diff">>
    /\ Changed(_frame, Val(prev_frame)) = (24..31) \cup (1016..1023)

\* C10: resynchronization: garbage followed by one valid full frame, in any
\* chunking: once every byte is in, that frame has been published, once, with
\* its original content.
C10_Resync ==
    (Delivered /\ Val(scenario).kind = "full") =>
        /\ Cardinality(FullsIn(published)) = 1
        /\ last_frame = Some(PayloadOf(Val(scenario).payload))

\* The same for garbage in which the header bytes AA 55 do not occur.
ResyncWithoutHeaderInGarbage ==
    (Delivered /\ Val(scenario).kind = "full" /\ Find(Val(scenario).garbage, HEADER) < 0) =>
        /\ Cardinality(FullsIn(published)) = 1
        /\ last_frame = Some(PayloadOf(Val(scenario).payload))

\* Garbage ending in the first header byte, read in several chunks, then the frame.
C10_Witness ==
    /\ Delivered
    /\ Val(scenario).garbage = <<9, 9, 9, 9, 170>>
    /\ polls >= 3
    /\ published = <<"full">>
    /\ last_frame = Some(PayloadOf("ramp"))


(***************************************************************************)
(* Specification SpecWriteFail: the state machine of Spec on a transport   *)
(* whose write may fail.  serial.write raises SerialException inside       *)
(* _send_cmd; neither _send_cmd nor _service_button_tx catches it, so the  *)
(* handler ends at the call and the assignments after it are not made.     *)
(***************************************************************************)
\* k5qtviewer.py:387-394 with the write of line 434 raising
_start_session_raising(s, now_ms) ==
    [s EXCEPT !.session_pending = TRUE,
              !.last_session_attempt_ms = now_ms,
              !.session_deadline_ms = Plus(now_ms, SESSION_TIMEOUT_MS),
              !.session_ts = Some(And32(now_ms)),
              !.session_t0 = Some(now_ms),
              !.stale_wait = FALSE]

\* k5qtviewer.py:365-380 with the write of line 434 raising: the head of the
\* queue is popped and the sequence number taken, lines 381-384 are not run
SendButtonRaising(s, now_ms) ==
    [s EXCEPT !.button_queue = Tail(@), !.next_seq = (s.next_seq + 1) % 65536]

\* _service_button_tx on a tick at which serial.write raises
_service_button_tx_raising(s, now_ms) ==
    LET s1 == SessionTimeout(s, now_ms)
        s2 == AckTimeout(s1, now_ms)
    IN IF TxBlocked(s2) THEN s2
       ELSE IF s2.session_pending THEN s2
       ELSE IF ~_is_session_fresh(s2, now_ms)
            THEN IF DiffLess(now_ms, s2.last_session_attempt_ms, SESSION_RETRY_INTERVAL_MS)
                 THEN s2
                 ELSE _start_session_raising(s2, now_ms)
       ELSE SendButtonRaising(s2, now_ms)

\* The identity of the event a tick at now_ms sends (0: it sends none).
EventSentAt(s, now_ms) ==
    LET after == _service_button_tx(s, now_ms)
    IN IF after.tx # <<>> /\ after.tx[1].msg_type = MSG_BUTTON_EVENT
       THEN Val(after.inflight_event).id
       ELSE 0

\* The button timer fires and the write the handler makes fails.
TickWriteFails ==
    \E d \in Deltas :
        /\ ticks < MaxTicks
        /\ _service_button_tx(Self, Plus(now, d)).tx # <<>>
        /\ now' = Plus(now, d)
        /\ ticks' = ticks + 1
        /\ Commit(_service_button_tx_raising(Self, Plus(now, d)))
        /\ last_op' = Op("write_failed", 0, EventSentAt(Self, Plus(now, d)))
        /\ script' = -1
        /\ UNCHANGED <<codecVars, screenVars>>

NextWriteFail == Tick \/ Tap \/ Recv \/ TickWriteFails

SpecWriteFail == Init /\ [][NextWriteFail]_vars

\* The identities of the events in the queue and in the in-flight record.
QueuedIds == {_button_queue[i].id : i \in 1..Len(_button_queue)}
InflightIds == IF _inflight_event = None THEN {} ELSE {Val(_inflight_event).id}

\* C11: a transport write failure is never destructive: after a tick whose
\* write of a ButtonEvent failed, the event is still in the queue or in flight.
C11_WriteFailureKeepsEvent ==
    (last_op.op = "write_failed" /\ last_op.id # 0) =>
        last_op.id \in QueuedIds \cup InflightIds

\* What the code does instead: the event of the failed write is in neither
\* place, and it was not dropped by the retry limit.
WriteFailureLosesEvent ==
    (last_op.op = "write_failed" /\ last_op.id # 0) =>
        /\ last_op.id \notin QueuedIds \cup InflightIds
        /\ last_op.id \notin dropped
        /\ _inflight_seq = None


\* C12: queue_button_tap with a key name that is not a known key changes
\* neither the queue, the in-flight record, the sequence counter nor the
\* session state, and transmits nothing.
C12_UnknownKeyRejected ==
    [][last_op'.op = "rejected" =>
          /\ UNCHANGED <<_button_queue, _inflight_seq, _inflight_event,
                         _inflight_deadline_ms, _next_seq>>
          /\ SessionUnchanged
          /\ tx' = <<>>]_vars

\* An unknown key was rejected while one event was in flight and one queued.
C12_Witness ==
    /\ last_op.op = "rejected"
    /\ _button_queue # <<>>
    /\ _inflight_event # None


\* The bytes (from 0) of the blocks below 128 that the chunks of a diff
\* payload carry.
BytesCarried(payload) ==
    {j \in 0..(FRAME_SIZE - 1) :
        \E k \in ChunksOf(payload) : BlockOf(payload, k) = j \div 8}

\* C13: the DisplayBuffer is always 1024 bytes long, whatever has been
\* ingested; and a diff frame changes no byte outside the blocks below 128
\* its chunks carry, so that a chunk whose block is 128 or more writes nothing.
C13_FrameLength ==
    /\ Len(_frame) = FRAME_SIZE
    /\ (diff_payload # None /\ published[Len(published)] = "diff") =>
          Changed(_frame, Val(prev_frame)) \subseteq BytesCarried(Val(diff_payload))

\* A diff frame whose first chunk carries block 128 has been applied and
\* has changed nothing.
C13_Witness ==
    /\ Delivered
    /\ Val(scenario).blocks = <<128, 3>>
    /\ published = <<"full", "diff">>
    /\ _frame = Val(prev_frame)
    /\ Len(_frame) = FRAME_SIZE

\* An ignored frame in front of the full frame has been taken off the buffer.
IgnoredFrameSeen ==
    /\ Delivered
    /\ published = <<"ignored", "full">>


(***************************************************************************)
(* Specification SpecObfus: _obfus applied twice to a byte sequence.  The  *)
(* sequence given is kept in cmd_in, the bytearray _obfus works on in      *)
(* cmd_out, codec_pc counts the applications.                              *)
(***************************************************************************)
MaxBodyLen == 20
ObfusPatterns == {"zeros", "ones", "ramp", "key"}

\* A byte sequence of length n: all 00, all FF, a ramp, or the key itself.
ObfusInput(n, p) ==
    [i \in 1..n |->
        CASE p = "zeros" -> 0
          [] p = "ones" -> 255
          [] p = "ramp" -> (i * 37) % 256
          [] p = "key" -> OBFUS_TBL[((i - 1) % 16) + 1]]

InitObfus ==
    /\ cmd_in \in {Some(ObfusInput(n, p)) : n \in 0..MaxBodyLen, p \in ObfusPatterns}
    /\ cmd_out = cmd_in
    /\ codec_pc = "obfus0"
    /\ _cmd_buffer = <<>>
    /\ StateMachineIdle
    /\ ScreenIdle

\* _send_cmd obfuscates the body (k5qtviewer.py:430-431).
ObfusOnce ==
    /\ codec_pc = "obfus0"
    /\ cmd_out' = Some(_obfus(Val(cmd_out)))
    /\ codec_pc' = "obfus1"
    /\ UNCHANGED <<cmd_in, _cmd_buffer, smVars, screenVars>>

\* _fetch_cmd_packet applies _obfus again (k5qtviewer.py:318-319).
ObfusTwice ==
    /\ codec_pc = "obfus1"
    /\ cmd_out' = Some(_obfus(Val(cmd_out)))
    /\ codec_pc' = "obfus2"
    /\ UNCHANGED <<cmd_in, _cmd_buffer, smVars, screenVars>>

NextObfus == ObfusOnce \/ ObfusTwice

SpecObfus == InitObfus /\ [][NextObfus]_vars

\* C14: _obfus is self-inverse: applied twice to a byte sequence of any
\* length it yields the sequence again, and it never changes the length.
C14_ObfusSelfInverse ==
    /\ Len(Val(cmd_out)) = Len(Val(cmd_in))
    /\ codec_pc = "obfus2" => Val(cmd_out) = Val(cmd_in)

\* One application changes every byte (no byte of the key is 0).
ObfusOnceChangesAll ==
    codec_pc = "obfus1" =>
        \A i \in 1..Len(Val(cmd_in)) : Val(cmd_out)[i] # Val(cmd_in)[i]

\* A sequence one byte longer than the key has gone through _obfus twice.
C14_Witness ==
    /\ codec_pc = "obfus2"
    /\ Len(Val(cmd_in)) = 17
    /\ Val(cmd_in)[17] = 117
    /\ Val(cmd_out) = Val(cmd_in)



(***************************************************************************)
(* Specification SpecNoAck: the state machine of Spec facing a radio that  *)
(* answers SessionInit and never acks a ButtonEvent, so that every event   *)
(* sent runs into its ack deadline, over runs one tick longer than it      *)
(* takes to send an event five times and see the fifth time out.           *)
(***************************************************************************)
MaxNoAckTicks == 7

\* The 25 ms button timer fires.
TickNoAck ==
    \E d \in Deltas :
        /\ ticks < MaxNoAckTicks
        /\ now' = Plus(now, d)
        /\ ticks' = ticks + 1
        /\ Commit(_service_button_tx(Self, Plus(now, d)))
        /\ last_op' = Op("tick", 0, 0)
        /\ script' = ScriptAfterTick(d)
        /\ UNCHANGED <<codecVars, screenVars>>

\* poll hands a SessionInfo to the state machine.
RecvSessionInfo ==
    /\ Commit(Dispatch(Self, MSG_SESSION_INFO, <<0, 0, 0, 0>>))
    /\ last_op' = Op("info", 0, 0)
    /\ script' = -1
    /\ UNCHANGED <<now, ticks, codecVars, screenVars>>

NextNoAck == TickNoAck \/ Tap \/ RecvSessionInfo

SpecNoAck == Init /\ [][NextNoAck]_vars

\* A tick at or past the deadline of the event in flight.
AckTimeoutStep ==
    /\ last_op'.op = "tick"
    /\ _inflight_seq # None
    /\ _inflight_event # None
    /\ GreaterEq(now', _inflight_deadline_ms)

\* The receiver as the timeout leaves it (k5qtviewer.py:341-351), before the
\* same tick goes on to send.
AfterAckTimeout == AckTimeout(SessionTimeout(Self, now'), now')

\* The event in flight, with its retry counter incremented.
Retried == [Val(_inflight_event) EXCEPT !.retries = @ + 1]

\* The tick went on to send the event again, or left it at the head of the queue.
ResentOrAtHead ==
    \/ /\ _inflight_event' = None
       /\ _button_queue' = <<Retried>> \o _button_queue
    \/ /\ _inflight_event' = Some(Retried)
       /\ _button_queue' = _button_queue
       /\ ButtonsIn(tx') # {}

\* The timeout has not touched the session.
SessionKeptByTimeout ==
    /\ AfterAckTimeout.session_ts = _session_ts
    /\ AfterAckTimeout.session_pending = _session_pending
    /\ AfterAckTimeout.session_deadline_ms = _session_deadline_ms
    /\ AfterAckTimeout.last_session_attempt_ms = _last_session_attempt_ms

\* C15 as claimed: at a tick at or past the in-flight deadline the in-flight
\* record is cleared and the event is put back at the front of the queue with
\* its retry counter incremented, the session being left as it was by the
\* timeout itself.
C15_AckTimeoutRequeues ==
    [][AckTimeoutStep =>
          /\ AfterAckTimeout.inflight_seq = None
          /\ AfterAckTimeout.inflight_event = None
          /\ AfterAckTimeout.button_queue = <<Retried>> \o _button_queue
          /\ ResentOrAtHead
          /\ SessionKeptByTimeout]_vars

\* C15, amended: the same, unless the event's retry counter is already 4:
\* then the event is dropped and the queue is left as it was.
C15_AckTimeoutRequeuesOrDrops ==
    [][AckTimeoutStep =>
          /\ AfterAckTimeout.inflight_seq = None
          /\ AfterAckTimeout.inflight_event = None
          /\ SessionKeptByTimeout
          /\ IF Val(_inflight_event).retries < BUTTON_RETRY_LIMIT
             THEN /\ AfterAckTimeout.button_queue = <<Retried>> \o _button_queue
                  /\ ResentOrAtHead
             ELSE /\ AfterAckTimeout.button_queue = _button_queue
                  /\ Val(_inflight_event).id \in dropped'
                  /\ Val(_inflight_event).id \notin QueuedIds' \cup InflightIds']_vars

\* A tick past the ack deadline, on a session no longer fresh, has left the
\* event that was in flight at the head of the queue, in front of another.
C15_Witness ==
    /\ last_op.op = "tick"
    /\ _inflight_seq = None
    /\ Len(_button_queue) >= 2
    /\ Head(_button_queue).retries >= 1
    /\ GreaterEq(now, _inflight_deadline_ms)
    /\ ButtonsIn(tx) = {}


\* A complete ButtonAck, and the sequence number it carries.
IsButtonAck(m) == m.msg_type = MSG_BUTTON_ACK /\ Len(m.payload) >= 4
AckSeq(m) == m.payload[1] + 256 * m.payload[2]

\* C16: a ButtonAck whose sequence number is not the one in flight, or that
\* arrives when nothing is in flight, changes nothing, whatever its status:
\* in every reachable state, handing such an ack to the state machine leaves
\* queue, in-flight record and deadline, sequence counter, session timestamp
\* and pending flag as they are, and sends nothing.
C16_ForeignAckIgnored ==
    \A m \in Inbound :
        (IsButtonAck(m) /\ (_inflight_seq = None \/ AckSeq(m) # Val(_inflight_seq))) =>
            LET after == Dispatch(Self, m.msg_type, m.payload)
            IN /\ after.button_queue = _button_queue
               /\ after.inflight_seq = _inflight_seq
               /\ after.inflight_event = _inflight_event
               /\ after.inflight_deadline_ms = _inflight_deadline_ms
               /\ after.next_seq = _next_seq
               /\ after.session_ts = _session_ts
               /\ after.session_pending = _session_pending
               /\ after.tx = <<>>

\* A message was ignored while an event was in flight on a session, with
\* another event queued behind it.
C16_Witness ==
    /\ last_op.op = "ignored"
    /\ _inflight_seq # None
    /\ _inflight_event # None
    /\ _session_ts # None
    /\ _button_queue # <<>>


\* C17: after a SessionInfo has been processed the pending flag is false and
\* a session timestamp is held, so that "session established" is only
\* reported while there is a session.
C17_InfoMeansSession ==
    last_op.op = "info" => (~_session_pending /\ _session_ts # None)

\* What the handler does guarantee: the pending flag is false afterwards.
InfoClearsPending ==
    last_op.op = "info" => ~_session_pending

\* A SessionInfo was processed after a stale ack had cleared the session:
\* "established" is reported and no session timestamp is held.
InfoWithoutSession ==
    /\ last_op.op = "info"
    /\ stale_wait
    /\ _session_ts = None
    /\ _button_queue # <<>>


\* The command packets of the stream have all been read by poll.
CmdStreamIngested ==
    /\ scenario # None
    /\ Val(scenario).garbage \in CmdStreams
    /\ Len(stream) <= 5 + FRAME_SIZE

InfoMsg == [msg_type |-> MSG_SESSION_INFO, payload |-> <<0, 0, 0, 0>>]
AckMsg == [msg_type |-> MSG_BUTTON_ACK, payload |-> <<1, 0, 0, 0>>]

\* C18: command parser resynchronization: a packet whose footer does not
\* match costs 2 bytes and the parser goes on, so that the well-formed packet
\* buffered behind it has been handed to the state machine by the end of the
\* ingest call in which it is completely buffered; well-formed packets are
\* handed over in buffer order.
C18_CmdResync ==
    CmdStreamIngested =>
        IF Val(scenario).garbage = GoodAck \o GoodInfo
        THEN cmd_out = <<AckMsg, InfoMsg>>
        ELSE cmd_out = <<InfoMsg>>

\* Two well-formed packets are handed over in order, in the call that
\* completes them.
GoodPacketsInOrder ==
    (CmdStreamIngested /\ Val(scenario).garbage = GoodAck \o GoodInfo) =>
        cmd_out = <<AckMsg, InfoMsg>>

\* The bad packet and the good one behind it arrived in one read, the whole
\* stream has been read since, and the good packet is still in the buffer,
\* not handed over.
CmdParserStalled ==
    /\ Delivered
    /\ Val(scenario).garbage = BadFooter(GoodAck) \o GoodInfo
    /\ cmd_out = <<>>
    /\ Len(_cmd_buffer) >= Len(GoodInfo)


\* A tick that transmits a SessionInit.
InitSentStep == last_op'.op = "tick" /\ InitsIn(tx') # {}

\* A tick at or past the deadline of a pending session request.
SessionTimeoutStep ==
    /\ last_op'.op = "tick"
    /\ _session_pending
    /\ GreaterEq(now', _session_deadline_ms)

\* A session younger than 5000 ms is held once the timeouts of the tick are
\* done (its age taken from the clock value it was created at).
YoungSessionHeld ==
    /\ AfterAckTimeout.session_t0 # None
    /\ DiffLess(now', Val(AfterAckTimeout.session_t0), SESSION_FRESH_MS)

\* The conditions of a SessionInit other than the freshness of the session,
\* taken once the timeouts of the tick are done.
InitConditions ==
    /\ AfterAckTimeout.button_queue # <<>>
    /\ AfterAckTimeout.inflight_seq = None
    /\ ~AfterAckTimeout.session_pending
    /\ ~DiffLess(now', _last_session_attempt_ms, SESSION_RETRY_INTERVAL_MS)
    /\ Len(tx') = 1
    /\ _last_session_attempt_ms' = now'
    /\ _session_pending'
    /\ _session_deadline_ms' = Plus(now', SESSION_TIMEOUT_MS)

\* The timeout clears the request; the tick, finding the queue non-empty
\* and no session, issues the next one at once.
PendingCleared ==
    /\ ~SessionTimeout(Self, now').session_pending
    /\ SessionTimeout(Self, now').session_ts = None
    /\ InitsIn(tx') # {}

\* C19: a SessionInit is transmitted only at a tick where (the timeouts of
\* the tick done) the queue is non-empty, nothing is in flight, no request is
\* pending, no session younger than 5000 ms is held and the previous session
\* attempt is at least 300 ms old; and a pending request is cleared at the
\* first tick at or past its deadline.
C19_SessionInitGuarded ==
    [][/\ InitSentStep => (InitConditions /\ ~YoungSessionHeld)
       /\ SessionTimeoutStep => PendingCleared]_vars

\* The same for sessions created while the clock is below 2^32 ms.
SessionInitGuardedOnEarlyClock ==
    [][/\ (InitSentStep /\ (session_t0 = None \/ Val(session_t0).hi < 4)) =>
              (InitConditions /\ ~YoungSessionHeld)
       /\ InitSentStep => InitConditions
       /\ SessionTimeoutStep => PendingCleared]_vars

\* A second SessionInit has gone out on a session that is answered and is
\* less than 5000 ms old.
InitOnYoungSession ==
    /\ last_op.op = "tick"
    /\ InitsIn(tx) # {}
    /\ RealClock
    /\ _button_queue # <<>>
    /\ Head(_button_queue).retries = 0
    /\ ticks >= 2


\* A matching ack whose status is neither accepted, busy nor stale.
InvalidAckStep ==
    /\ last_op'.op = "ack"
    /\ last_op'.status \notin {0, 1, 3}
    /\ _inflight_event # None

\* The events queued so far that are neither in the queue nor in flight.
GoneIds == (1..(next_id - 1)) \ (QueuedIds \cup InflightIds)

\* C20: a matching ack with status invalid (2) or an unknown status clears
\* the in-flight record and drops the event for good: it is not requeued, the
\* session is left as it was, and an event that is neither queued nor in
\* flight never comes back, so it is never transmitted again.
C20_InvalidAckDrops ==
    [][/\ InvalidAckStep =>
              /\ _inflight_seq' = None
              /\ _inflight_event' = None
              /\ _button_queue' = _button_queue
              /\ Val(_inflight_event).id \in GoneIds'
              /\ SessionUnchanged
              /\ tx' = <<>>
       /\ GoneIds \subseteq GoneIds']_vars

\* An ack with an unknown status has dropped the press; the release is
\* still queued.
C20_Witness ==
    /\ last_op.op = "ack"
    /\ last_op.status = 7
    /\ _inflight_seq = None
    /\ last_op.id \in GoneIds
    /\ last_op.id \notin dropped
    /\ _button_queue # <<>>


(***************************************************************************)
(* Specification SpecLive: the state machine of Spec under fair ticks of   *)
(* the button timer, with no bound on their number, facing a radio that    *)
(* answers every SessionInit before its deadline and does what it likes    *)
(* with button events.  The code compares the clock with the times it has  *)
(* stored only through differences (k5qtviewer.py:341, 346, 357, 408), so  *)
(* the state is kept relative to the clock: when d ms have passed, `now`   *)
(* stays and every stored time moves back by d, but no further back than   *)
(* the constant the code compares its age with: from there on every        *)
(* comparison gives the same answer, and the times the code cannot tell    *)
(* apart are kept as one.                                                  *)
(***************************************************************************)
\* t - k, for 0 <= k < 2^30
Minus(t, k) == IF t.lo < k THEN Ms(t.hi - 1, t.lo + Limb - k) ELSE Ms(t.hi, t.lo - k)

\* The stored time t, d ms later: limit is the constant of the comparison
\* (now_ms - t) < limit that the code makes with it.
Aged(t, d, limit) ==
    IF DiffLess(now, Minus(t, d), limit) THEN Minus(t, d) ELSE Minus(now, limit)
AgedOpt(o, d, limit) == IF o = None THEN None ELSE Some(Aged(Val(o), d, limit))

\* The receiver d ms later, nothing having run in between.
Later(s, d) ==
    [s EXCEPT !.session_ts = AgedOpt(@, d, SESSION_FRESH_MS),
              !.session_t0 = AgedOpt(@, d, SESSION_FRESH_MS),
              !.session_deadline_ms = Aged(@, d, 0),
              !.inflight_deadline_ms = Aged(@, d, 0),
              !.last_session_attempt_ms = Aged(@, d, SESSION_RETRY_INTERVAL_MS)]

\* Time that may pass between two runs of the button timer: less than the
\* session retry interval, or more than the ack timeout.
LiveDeltas == {250, 1000}

\* The button timer fires d ms after the last tick.  The radio answers every
\* SessionInit before its deadline: no tick finds a request pending at or
\* past its deadline.
TickLive ==
    \E d \in LiveDeltas :
        /\ _session_pending => ~GreaterEq(now, Later(Self, d).session_deadline_ms)
        /\ \E after \in {_service_button_tx(Later(Self, d), now)} : Commit(after)
        /\ last_op' = Op("tick", 0, 0)
        /\ script' = -1
        /\ UNCHANGED <<now, ticks, codecVars, screenVars>>

\* poll hands the radio's answer to a pending SessionInit to the state machine.
AnswerSessionInit ==
    /\ _session_pending
    /\ \E after \in {Dispatch(Self, MSG_SESSION_INFO, <<0, 0, 0, 0>>)} : Commit(after)
    /\ last_op' = Op("info", 0, 0)
    /\ script' = ScriptAfterMsg([msg_type |-> MSG_SESSION_INFO, payload |-> <<0, 0, 0, 0>>])
    /\ UNCHANGED <<now, ticks, codecVars, screenVars>>

\* The start of the run: the clock does not cross 2^32 ms in a run kept
\* relative to it, so the runs start shortly after the epoch or today.
InitLive == Init /\ now \in {Ms(0, 1000), Ms(1670, 400000000)}

NextLive == TickLive \/ Tap \/ Recv

\* The Qt event loop runs the 25 ms timer for as long as the receiver lives,
\* and the radio's answer to a SessionInit is read by the 10 ms poll timer.
SpecLive ==
    InitLive /\ [][NextLive]_vars /\ WF_vars(TickLive) /\ WF_vars(AnswerSessionInit)

\* The event has been acked accepted, or reported dropped on an ack with a
\* status that is neither accepted nor retried.
AckedFinal(id) == id \in acked
\* The event has been reported dropped by the retry limit.
ReportedDropped(id) == id \in dropped
Enqueued(id) == id < next_id
Quiet == _button_queue = <<>> /\ _inflight_seq = None /\ _inflight_event = None

\* C21: liveness of the button queue: under fair ticks and a radio that
\* answers every SessionInit before its deadline, whatever the radio does with
\* button events, every enqueued event is eventually acked accepted or
\* reported dropped, and once enqueues have stopped the queue eventually is
\* empty with nothing in flight, and stays so.
C21_QueueDrains ==
    /\ \A id \in 1..(2 * MaxTaps) : Enqueued(id) ~> (AckedFinal(id) \/ ReportedDropped(id))
    /\ <>[]Quiet

\* The same on a clock below 2^32 ms.
QueueDrainsOnEarlyClock ==
    /\ \A id \in 1..(2 * MaxTaps) :
           (Enqueued(id) /\ now.hi < 4) ~> (AckedFinal(id) \/ ReportedDropped(id))
    /\ <>[](now.hi < 4 => Quiet)

\* On today's clock no ButtonEvent is ever transmitted.
NothingSentOnRealClock == now.hi >= 4 => (_next_seq = 1 /\ ButtonsIn(tx) = {})


(***************************************************************************)
(* Specification SpecOrder: the state machine of Spec with several taps    *)
(* of different keys, on a clock below 2^32 ms.                            *)
(***************************************************************************)
MaxOrderTicks == 5
MaxOrderTaps == 2
OrderKeys == {"1", "menu"}
\* Time between two runs of the button timer: a prompt tick, and one past the
\* session and ack deadlines.
OrderDeltas == {100, 700}
\* What the radio sends: a SessionInfo, and an ack of the last ButtonEvent
\* sent with status accepted, busy, invalid or stale.
OrderInbound ==
    {[msg_type |-> MSG_SESSION_INFO, payload |-> <<0, 0, 0, 0>>]}
    \cup {[msg_type |-> MSG_BUTTON_ACK,
           payload |-> _hw_le((_next_seq + 65535) % 65536) \o <<st, 0>>] : st \in 0..3}

InitOrder ==
    /\ now = Ms(0, 1000)
    /\ ticks = 0
    /\ _session_ts = None
    /\ _session_pending = FALSE
    /\ _session_deadline_ms = Ms(0, 0)
    /\ _last_session_attempt_ms = Ms(0, 0)
    /\ _button_queue = <<>>
    /\ _next_seq = 1
    /\ _inflight_seq = None
    /\ _inflight_event = None
    /\ _inflight_deadline_ms = Ms(0, 0)
    /\ tx = <<>>
    /\ last_op = Op("init", 0, 0)
    /\ next_id = 1
    /\ tx_count = [i \in 1..(2 * MaxOrderTaps) |-> 0]
    /\ dropped = {}
    /\ acked = {}
    /\ session_t0 = None
    /\ stale_wait = FALSE
    /\ transit = 0
    /\ script = -1
    /\ CodecIdle
    /\ ScreenIdle

TickOrder ==
    \E d \in OrderDeltas :
        /\ ticks < MaxOrderTicks
        /\ now' = Plus(now, d)
        /\ ticks' = ticks + 1
        /\ Commit(_service_button_tx(Self, Plus(now, d)))
        /\ last_op' = Op("tick", 0, 0)
        /\ script' = -1
        /\ UNCHANGED <<codecVars, screenVars>>

TapOrder ==
    \E key_name \in OrderKeys :
        /\ next_id < 2 * MaxOrderTaps
        /\ Commit(queue_button_tap(Self, key_name))
        /\ last_op' = Op("tap", 0, next_id)
        /\ script' = -1
        /\ UNCHANGED <<now, ticks, codecVars, screenVars>>

RecvOrder ==
    \E m \in OrderInbound :
        /\ Commit(Dispatch(Self, m.msg_type, m.payload))
        /\ last_op' = IF m.msg_type = MSG_SESSION_INFO THEN Op("info", 0, 0)
                      ELSE IF AckMatches(Self, m.msg_type, m.payload)
                           THEN Op("ack", m.payload[3],
                                   IF _inflight_event = None THEN 0
                                   ELSE Val(_inflight_event).id)
                           ELSE Op("ignored", 0, 0)
        /\ script' = -1
        /\ UNCHANGED <<now, ticks, codecVars, screenVars>>

NextOrder == TickOrder \/ TapOrder \/ RecvOrder

SpecOrder == InitOrder /\ [][NextOrder]_vars

\* What a tap of this key appends: the press, then the release.
TapEntries(key_name) ==
    <<[key_code |-> KEY_CODES[Upper(key_name)], action |-> ACTION_PRESS,
       key_name |-> Upper(key_name), retries |-> 0, id |-> next_id],
      [key_code |-> KEY_CODES[Upper(key_name)], action |-> ACTION_RELEASE,
       key_name |-> Upper(key_name), retries |-> 0, id |-> next_id + 1]>>

\* The event this step has transmitted, and the ButtonEvent that carried it.
SentEvent == Val(_inflight_event')
SentOnWire == tx'[Len(tx')]

\* C22: tap ordering: a tap with a known key appends the press and then the
\* release of that key, both with retry counter 0, at the tail of the queue;
\* and whenever a ButtonEvent is transmitted, it carries the key and action of
\* an event before which every earlier event (the press of the same tap, the
\* events of earlier taps) is neither queued nor in flight, but accepted or
\* dropped.
C22_TapOrdering ==
    /\ [](\A key_name \in OrderKeys :
             queue_button_tap(Self, key_name).button_queue =
                 _button_queue \o TapEntries(key_name))
    /\ [][ButtonsIn(tx') # {} =>
             /\ _inflight_event' # None
             /\ SentOnWire.payload[7] = SentEvent.key_code
             /\ SentOnWire.payload[8] = SentEvent.action
             /\ \A id \in 1..(SentEvent.id - 1) :
                    /\ id \notin QueuedIds'
                    /\ AckedFinal(id)' \/ ReportedDropped(id)']_vars

\* The press of the second tap is in flight, its release is all there is in
\* the queue, and the events of the first tap are settled, each on an ack
\* with a final status.
C22_Witness ==
    /\ _inflight_event # None
    /\ Val(_inflight_event).id = 3
    /\ Val(_inflight_event).action = ACTION_PRESS
    /\ Val(_inflight_event).key_name = "MENU"
    /\ ButtonsIn(tx) # {}
    /\ Len(_button_queue) = 1
    /\ _button_queue[1].action = ACTION_RELEASE
    /\ _button_queue[1].key_name = "MENU"
    /\ acked = {1, 2}
    /\ last_op.op = "tick"


\* How often the event is in the queue, in the in-flight record, among the
\* events acked with a final status, and among those dropped by the retry limit.
TimesQueued(id) == Cardinality({i \in 1..Len(_button_queue) : _button_queue[i].id = id})
TimesInFlight(id) == IF id \in InflightIds THEN 1 ELSE 0
TimesAcked(id) == IF id \in acked THEN 1 ELSE 0
TimesDropped(id) == IF id \in dropped THEN 1 ELSE 0

\* C23: event conservation, while transport writes succeed: in every
\* reachable state each enqueued event is in exactly one of four places: in
\* the queue (once), in the in-flight record, acked with a final status
\* (accepted, or a status that is not retried), or dropped by the retry
\* limit; and the in-flight sequence number is set if and only if the
\* in-flight event is.
C23_EventConservation ==
    /\ \A id \in 1..(next_id - 1) :
           TimesQueued(id) + TimesInFlight(id) + TimesAcked(id) + TimesDropped(id) = 1
    /\ acked \subseteq 1..(next_id - 1)
    /\ dropped \subseteq 1..(next_id - 1)
    /\ QueuedIds \cup InflightIds \subseteq 1..(next_id - 1)
    /\ (_inflight_seq = None) <=> (_inflight_event = None)

\* The press has been acked with a final status, the release has been sent
\* and is in flight on its own sequence number and the queue is empty.
C23_Witness ==
    /\ next_id = 3
    /\ acked = {1}
    /\ last_op.op = "tick"
    /\ InflightIds = {2}
    /\ _inflight_seq # None
    /\ _button_queue = <<>>
    /\ dropped = {}


(***************************************************************************)
(* Specification SpecSeq: the state machine of Spec on a clock below       *)
(* 2^32 ms, started either as the constructor leaves it or as it is after  *)
(* 65534 ButtonEvents, the events of an earlier tap acked and nothing      *)
(* queued or in flight: the next sequence number is then 65535.            *)
(***************************************************************************)
MaxSeqTicks == 5
MaxSeqTaps == 2

InitSeq ==
    /\ now = Ms(0, 1000)
    /\ ticks = 0
    /\ _session_ts = None
    /\ _session_pending = FALSE
    /\ _session_deadline_ms = Ms(0, 0)
    /\ _last_session_attempt_ms = Ms(0, 0)
    /\ _button_queue = <<>>
    /\ \/ _next_seq = 1 /\ next_id = 1 /\ acked = {}
       \/ _next_seq = 65535 /\ next_id = 3 /\ acked = {1, 2}
    /\ _inflight_seq = None
    /\ _inflight_event = None
    /\ _inflight_deadline_ms = Ms(0, 0)
    /\ tx = <<>>
    /\ last_op = Op("init", 0, 0)
    /\ tx_count = [i \in 1..(2 * MaxSeqTaps) |-> 0]
    /\ dropped = {}
    /\ session_t0 = None
    /\ stale_wait = FALSE
    /\ transit = 0
    /\ script = -1
    /\ CodecIdle
    /\ ScreenIdle

TickSeq ==
    \E d \in OrderDeltas :
        /\ ticks < MaxSeqTicks
        /\ now' = Plus(now, d)
        /\ ticks' = ticks + 1
        /\ Commit(_service_button_tx(Self, Plus(now, d)))
        /\ last_op' = Op("tick", 0, 0)
        /\ script' = -1
        /\ UNCHANGED <<codecVars, screenVars>>

TapSeq ==
    /\ next_id < 2 * MaxSeqTaps
    /\ Commit(queue_button_tap(Self, "1"))
    /\ last_op' = Op("tap", 0, next_id)
    /\ script' = -1
    /\ UNCHANGED <<now, ticks, codecVars, screenVars>>

NextSeq == TickSeq \/ TapSeq \/ Recv

SpecSeq == InitSeq /\ [][NextSeq]_vars

\* The sequence number carried by the ButtonEvent this step has transmitted.
WireSeq == SentOnWire.payload[5] + 256 * SentOnWire.payload[6]

\* No ButtonEvent has been transmitted since the constructor.
NothingSentYet ==
    /\ acked = {}
    /\ dropped = {}
    /\ _inflight_seq = None
    /\ \A i \in 1..Len(_button_queue) : _button_queue[i].retries = 0

\* A complete ButtonAck for the sequence number that is j behind the one in flight.
AckBehind(j, status) ==
    [msg_type |-> MSG_BUTTON_ACK,
     payload |-> _hw_le((Val(_inflight_seq) + 65536 - j) % 65536) \o <<status, 0>>]

\* C24: every ButtonEvent transmitted, retransmissions included, carries a
\* new sequence number: the first is 1, each next is the previous plus one
\* modulo 2^16, and nothing else moves the counter; so an ack for an earlier
\* transmission of the event in flight, whatever its status, does not match
\* the sequence number in flight and leaves the in-flight record and the
\* queue as they are.
C24_SequenceNumbers ==
    /\ [][IF ButtonsIn(tx') # {}
          THEN /\ Len(tx') = 1
               /\ WireSeq = _next_seq
               /\ _next_seq' = (_next_seq + 1) % 65536
               /\ _inflight_seq' = Some(WireSeq)
               /\ NothingSentYet => WireSeq = 1
          ELSE _next_seq' = _next_seq]_vars
    /\ [](\A id \in InflightIds : \A j \in 1..(tx_count[id] - 1) : \A status \in AckStatuses :
             /\ _inflight_seq # None
             /\ LET m == AckBehind(j, status)
                    after == Dispatch(Self, m.msg_type, m.payload)
                IN /\ after.inflight_seq = _inflight_seq
                   /\ after.inflight_event = _inflight_event
                   /\ after.button_queue = _button_queue
                   /\ after.acked = acked)

\* The counter has wrapped: the event first sent with 65535 timed out and is
\* in flight again with 0, and a message that did not match has just been
\* ignored.
C24_Witness ==
    /\ _inflight_seq = Some(0)
    /\ _next_seq = 1
    /\ _inflight_event # None
    /\ tx_count[Val(_inflight_event).id] = 2
    /\ last_op.op = "ignored"

=============================================================================
